---- MODULE Spec2Model ----
(***************************************************************************)
(* Model of the ticket-triage workflow of app/main.py: the LangGraph       *)
(* state graph ingest -> classify_issue -> (extract_order_id) ->           *)
(* fetch_order -> draft_reply, driven by the /triage/invoke handler.       *)
(*                                                                         *)
(* Python strings are modelled as sequences of atoms.  An atom is a        *)
(* single character wherever the code looks inside the string (ticket      *)
(* text, keywords, order ids) and a whole literal chunk elsewhere          *)
(* (f-string literals, template text, exception text).                     *)
(***************************************************************************)
EXTENDS Integers, Sequences, FiniteSets, TLC

(***************************************************************************)
(* Bounds of the model.                                                    *)
(***************************************************************************)
MaxTokens == 3

(***************************************************************************)
(* Python values.                                                          *)
(***************************************************************************)
\* None in a string-typed Optional field; no string of the model holds this atom
None == <<"None">>

\* None in a dict-typed Optional field
NoneDict == [None |-> None]

\* truthiness of an Optional[str]: None and "" are falsy
Truthy(v) == v # None /\ v # << >>

\* truthiness of an Optional[dict]: None and {} are falsy
TruthyDict(d) == d # NoneDict /\ DOMAIN d # {}

\* dict.get(key, default)
Get(d, key, default) == IF key \in DOMAIN d THEN d[key] ELSE default

\* str.lower() on one character of the model's alphabet
LowerChar(c) ==
    CASE c = "O" -> "o"
      [] c = "R" -> "r"
      [] c = "D" -> "d"
      [] c = "L" -> "l"
      [] OTHER -> c

\* str.upper() on one character of the model's alphabet
UpperChar(c) ==
    CASE c = "o" -> "O"
      [] c = "r" -> "R"
      [] c = "d" -> "D"
      [] c = "l" -> "L"
      [] OTHER -> c

Lower(s) == [i \in 1..Len(s) |-> LowerChar(s[i])]

Upper(s) == [i \in 1..Len(s) |-> UpperChar(s[i])]

\* the regex class \d
IsDigit(c) == c \in {"0", "1", "2", "3", "4", "5", "6", "7", "8", "9"}

\* sub occurs in s at position i
OccursAt(sub, s, i) ==
    /\ i + Len(sub) - 1 <= Len(s)
    /\ \A j \in 1..Len(sub) : s[i + j - 1] = sub[j]

\* Python's `sub in s`
Contains(sub, s) == \E i \in 1..(Len(s) + 1) : OccursAt(sub, s, i)

\* concatenation of a sequence of strings
RECURSIVE Concat(_)
Concat(ss) == IF ss = << >> THEN << >> ELSE Head(ss) \o Concat(Tail(ss))

\* str.replace(old, new) where old is a single atom (a placeholder token)
RECURSIVE Replace(_, _, _)
Replace(s, old, new) ==
    IF s = << >> THEN << >>
    ELSE (IF Head(s) = old THEN new ELSE <<Head(s)>>) \o Replace(Tail(s), old, new)

(***************************************************************************)
(* Mock data loaded at import time (orders.json, issues.json,              *)
(* replies.json).  The order ids and issue types are those the tests use.  *)
(***************************************************************************)
ORD1001 == <<"O", "R", "D", "1", "0", "0", "1">>

ORD1002 == <<"O", "R", "D", "1", "0", "0", "2">>

ORD9999 == <<"O", "R", "D", "9", "9", "9", "9">>

OrdersData ==
    << [order_id |-> ORD1001, customer_name |-> <<"Alice">>],
       [order_id |-> ORD1002, customer_name |-> <<"Bob">>] >>

KwRefund == <<"r", "e", "f", "u", "n", "d">>

KwLate == <<"l", "a", "t", "e">>

KwE == <<"e">>

\* the rule lists the model draws issues.json from: the same rules in two orders
IssuesData ==
    { << [keyword |-> KwRefund, issue_type |-> <<"refund_request">>],
         [keyword |-> KwLate, issue_type |-> <<"late_delivery">>],
         [keyword |-> KwE, issue_type |-> <<"wrong_item">>] >>,
      << [keyword |-> KwE, issue_type |-> <<"wrong_item">>],
         [keyword |-> KwLate, issue_type |-> <<"late_delivery">>],
         [keyword |-> KwRefund, issue_type |-> <<"refund_request">>] >> }

RepliesData ==
    << [issue_type |-> <<"refund_request">>,
        template |-> <<"Hi ", "{{customer_name}}", ", your refund for order ",
                       "{{order_id}}", " is being processed.">>],
       [issue_type |-> <<"wrong_item">>,
        template |-> <<"Sorry ", "{{customer_name}}", ", we will replace ",
                       "{{order_id}}", ".">>] >>

(***************************************************************************)
(* Request bodies (TriageInput).                                           *)
(***************************************************************************)
Tokens ==
    { <<"L", "a", "t", "e">>,
      KwRefund,
      <<" ">>,
      ORD1001,
      <<"o", "r", "d", "1", "0", "0", "2">>,
      <<"O", "R", "D", "1", "2">>,
      <<"7">> }

\* ticket texts: concatenations of at most MaxTokens tokens
TicketTexts ==
    { Concat(ts) : ts \in UNION { [1..n -> Tokens] : n \in 0..MaxTokens } }

\* order_id of the request: omitted, empty, known, unknown, and an unknown id
\* whose text contains the phrase the handler searches exception messages for
OrderIdInputs ==
    { None, << >>, ORD1001, ORD9999, <<"not found", " in text">> }

(***************************************************************************)
(* json.dumps / json.loads on flat dicts of strings.                       *)
(***************************************************************************)
QUOTE == "\""

EmptyDict == [k \in {} |-> << >>]

Put(d, k, v) == [x \in (DOMAIN d) \cup {k} |-> IF x = k THEN v ELSE d[x]]

\* insertion order of the keys of the dicts of the model
KeyOrder == <<"order_id", "customer_name", "raw">>

RECURSIVE DumpMembers(_, _, _)
DumpMembers(d, keys, first) ==
    IF keys = << >> THEN << >>
    ELSE IF Head(keys) \notin DOMAIN d THEN DumpMembers(d, Tail(keys), first)
    ELSE (IF first THEN << >> ELSE <<",">>)
         \o <<QUOTE, Head(keys), QUOTE, ":", QUOTE>> \o d[Head(keys)] \o <<QUOTE>>
         \o DumpMembers(d, Tail(keys), FALSE)

JsonDumps(d) == <<"{">> \o DumpMembers(d, KeyOrder, TRUE) \o <<"}">>

\* the outcome of json.loads raising
JsonError == [JSONDecodeError |-> None]

RECURSIVE ClosingQuote(_, _)
ClosingQuote(s, i) ==
    IF i > Len(s) THEN 0
    ELSE IF s[i] = QUOTE THEN i
    ELSE ClosingQuote(s, i + 1)

RECURSIVE ParseMembers(_, _, _)
ParseMembers(s, i, acc) ==
    IF i + 4 > Len(s) THEN JsonError
    ELSE IF s[i] # QUOTE \/ s[i + 2] # QUOTE \/ s[i + 3] # ":" \/ s[i + 4] # QUOTE
    THEN JsonError
    ELSE CHOOSE d \in
           { IF e = 0 \/ e + 1 > Len(s) THEN JsonError
             ELSE CHOOSE d2 \in
                    { IF s[e + 1] = "}" THEN (IF e + 1 = Len(s) THEN acc2 ELSE JsonError)
                      ELSE IF s[e + 1] = "," THEN ParseMembers(s, e + 2, acc2)
                      ELSE JsonError :
                      acc2 \in {Put(acc, s[i + 1], SubSeq(s, i + 5, e - 1))} } : TRUE :
             e \in {ClosingQuote(s, i + 5)} } : TRUE

\* (the text is bound to its value once, through a singleton set)
JsonLoads(s) ==
    CHOOSE d \in { IF v = << >> THEN JsonError
                   ELSE IF Head(v) # "{" THEN JsonError
                   ELSE ParseMembers(v, 2, EmptyDict) : v \in {s} } : TRUE

(***************************************************************************)
(* State.                                                                  *)
(***************************************************************************)
VARIABLES
    body,               \* the request: [ticket_text, order_id]
    state,              \* the TriageState of the run
    pc,                 \* the node about to run, or END / RAISED / DONE
    exc,                \* the message of the ValueError graph.invoke raised, or None
    response,           \* the HTTP response of triage_invoke, status 0 while running
    ISSUES,             \* issues.json
    ORDERS,             \* orders.json
    REPLIES,            \* replies.json
    handle_tool_errors, \* whether the installed ToolNode turns a tool's exception into an error ToolMessage
    next_id,            \* the next fresh message id
    trace,              \* history: the nodes executed so far, in order
    lookups,            \* history: the order ids fetch_order_tool was invoked with, in order
    others,             \* the other requests in flight: the suspended runs' own variables
    preempted           \* history: whether the run was suspended between two of its steps

vars ==
    << body, state, pc, exc, response, ISSUES, ORDERS, REPLIES,
       handle_tool_errors, next_id, trace, lookups, others, preempted >>

(***************************************************************************)
(* Messages and the add_messages reducer.                                  *)
(***************************************************************************)
\* id 0 stands for a message without id
Message(type, content, tool_calls, tool_call_id, status) ==
    [type |-> type, content |-> content, tool_calls |-> tool_calls,
     tool_call_id |-> tool_call_id, status |-> status, id |-> 0]

HumanMessage(content) == Message("HumanMessage", content, << >>, "", "")

AIMessage(content, tool_calls) == Message("AIMessage", content, tool_calls, "", "")

ToolMessage(content, tool_call_id, status) ==
    Message("ToolMessage", content, << >>, tool_call_id, status)

\* add_messages gives every message without id a fresh one
AssignIds(msgs, nid) ==
    [i \in 1..Len(msgs) |->
        IF msgs[i].id = 0 THEN [msgs[i] EXCEPT !.id = nid + i - 1] ELSE msgs[i]]

\* a message whose id is already in the list replaces that entry in place,
\* any other message is appended
RECURSIVE MergeById(_, _)
MergeById(left, right) ==
    IF right = << >> THEN left
    ELSE LET m == Head(right)
             hit == { i \in 1..Len(left) : left[i].id = m.id }
         IN  IF hit = {}
             THEN MergeById(Append(left, m), Tail(right))
             ELSE MergeById([left EXCEPT ![CHOOSE i \in hit : TRUE] = m], Tail(right))

\* mutant: the messages channel without its reducer, overwritten like the others
add_messages_Overwrite(left, right) == AssignIds(right, next_id)

add_messages(left, right) == MergeById(left, AssignIds(right, next_id))

\* one graph step's writes: messages go through the reducer, every other
\* key of the update overwrites the field
ApplyUpdate(st, u) ==
    [k \in DOMAIN st |->
        IF k \notin DOMAIN u THEN st[k]
        ELSE IF k = "messages" THEN add_messages(st.messages, u.messages)
        ELSE u[k]]

(***************************************************************************)
(* The fetch_order tool and the ToolNode around it.                        *)
(***************************************************************************)
RECURSIVE FirstOrder(_, _)
FirstOrder(orders, order_id) ==
    IF orders = << >> THEN NoneDict
    ELSE IF Head(orders).order_id = order_id THEN Head(orders)
    ELSE FirstOrder(Tail(orders), order_id)

\* the tool's return value, or [raise |-> message] for its ValueError
fetch_order_tool(order_id) ==
    LET o == FirstOrder(ORDERS, order_id) IN
    IF o # NoneDict THEN o
    ELSE [raise |-> <<"Order ">> \o order_id \o <<" ", "not found">>]

\* ToolNode runs the tool calls of the last message of its input and returns
\* the ToolMessages alone; a tool's exception becomes an error ToolMessage
\* when handle_tool_errors, and propagates otherwise.  The key "called"
\* records the arguments the tool was invoked with; it is no state field.
tool_node_invoke(input) ==
    LET call == input.messages[Len(input.messages)].tool_calls[1]
        called == <<call.args.order_id>>
    IN  CHOOSE r \in
          { IF "raise" \notin DOMAIN out
            THEN [messages |-> <<ToolMessage(JsonDumps(out), call.id, "success")>>,
                  called |-> called]
            ELSE IF handle_tool_errors
            THEN [messages |->
                     <<ToolMessage(<<"Error: ValueError('">> \o out.raise
                                      \o <<"')\n Please fix your mistakes.">>,
                                   call.id, "error")>>,
                  called |-> called]
            ELSE [raise |-> out.raise, called |-> called] :
            out \in {fetch_order_tool(call.args.order_id)} } : TRUE

(***************************************************************************)
(* The reply renderer.                                                     *)
(***************************************************************************)
FallbackTemplate ==
    <<"Hi ", "{{customer_name}}", ", we are reviewing order ", "{{order_id}}", ".">>

\* next((r["template"] for r in REPLIES if r["issue_type"] == issue_type), None)
RECURSIVE FirstTemplate(_, _)
FirstTemplate(replies, issue_type) ==
    IF replies = << >> THEN None
    ELSE IF Head(replies).issue_type = issue_type THEN Head(replies).template
    ELSE FirstTemplate(Tail(replies), issue_type)

\* mutant: no fallback when no template is configured for the issue type
render_reply_NoFallback(issue_type, order) ==
    LET found == FirstTemplate(REPLIES, issue_type)
        template == IF ~Truthy(found) THEN << >> ELSE found
    IN  Replace(Replace(template, "{{customer_name}}",
                        Get(order, "customer_name", <<"Customer">>)),
                "{{order_id}}", Get(order, "order_id", << >>))

render_reply(issue_type, order) ==
    LET found == FirstTemplate(REPLIES, issue_type)
        template == IF ~Truthy(found) THEN FallbackTemplate ELSE found
    IN  Replace(Replace(template, "{{customer_name}}",
                        Get(order, "customer_name", <<"Customer">>)),
                "{{order_id}}", Get(order, "order_id", << >>))

(***************************************************************************)
(* Graph nodes.  Each returns the node's update dict, or [raise |-> msg]   *)
(* when the node raises ValueError(msg).                                   *)
(***************************************************************************)
\* mutant: the ticket text is added twice, as the human and as the assistant
ingest_node_EchoesText(st) ==
    [messages |-> <<HumanMessage(st.ticket_text), AIMessage(st.ticket_text, << >>)>>]

ingest_node(st) == [messages |-> <<HumanMessage(st.ticket_text)>>]

\* the first rule, in list order, whose keyword occurs in text; 0 if none
RECURSIVE FirstRule(_, _, _)
FirstRule(rules, text, i) ==
    IF i > Len(rules) THEN 0
    ELSE IF Contains(rules[i].keyword, text) THEN i
    ELSE FirstRule(rules, text, i + 1)

\* the last rule, in list order, whose keyword occurs in text; 0 if none
RECURSIVE LastRule(_, _, _)
LastRule(rules, text, i) ==
    IF i < 1 THEN 0
    ELSE IF Contains(rules[i].keyword, text) THEN i
    ELSE LastRule(rules, text, i - 1)

ClassifyWith(st, r) ==
    LET issue_type == IF r = 0 THEN <<"unknown">> ELSE ISSUES[r].issue_type
        evidence == IF r = 0 THEN <<"no matching keyword found">>
                    ELSE <<"matched keyword '">> \o ISSUES[r].keyword \o <<"'">>
        explanation == <<"Detected issue_type='">> \o issue_type \o <<"' (">>
                       \o evidence \o <<").">>
    IN  [issue_type |-> issue_type, evidence |-> evidence,
         messages |-> <<AIMessage(explanation, << >>)>>]

\* mutant: the loop without its break, so that the last matching rule wins
classify_issue_node_LastMatch(st) ==
    ClassifyWith(st, LastRule(ISSUES, Lower(st.ticket_text), Len(ISSUES)))

\* mutant: the node returns a whole fresh state and so clears order_id
classify_issue_node_ResetsOrderId(st) ==
    [order_id |-> None] @@ ClassifyWith(st, FirstRule(ISSUES, Lower(st.ticket_text), 1))

\* (text and the rule found are each bound to their value once)
classify_issue_node(st) ==
    CHOOSE u \in
      { LET issue_type == IF r = 0 THEN <<"unknown">> ELSE ISSUES[r].issue_type
            evidence == IF r = 0 THEN <<"no matching keyword found">>
                        ELSE <<"matched keyword '">> \o ISSUES[r].keyword \o <<"'">>
            explanation == <<"Detected issue_type='">> \o issue_type \o <<"' (">>
                           \o evidence \o <<").">>
        IN  [issue_type |-> issue_type, evidence |-> evidence,
             messages |-> <<AIMessage(explanation, << >>)>>] :
        r \in { FirstRule(ISSUES, text, 1) : text \in {Lower(st.ticket_text)} } } : TRUE

\* (ORD\d{4}) with re.IGNORECASE matches at position i of text
MatchesAt(text, i) ==
    /\ i + 6 <= Len(text)
    /\ LowerChar(text[i]) = "o"
    /\ LowerChar(text[i + 1]) = "r"
    /\ LowerChar(text[i + 2]) = "d"
    /\ \A j \in 3..6 : IsDigit(text[i + j])

\* re.search: the start of the leftmost match at or after i; 0 if none
RECURSIVE re_search(_, _)
re_search(text, i) ==
    IF i + 6 > Len(text) THEN 0
    ELSE IF MatchesAt(text, i) THEN i
    ELSE re_search(text, i + 1)

\* mutant: the match is returned as written in the text, without .upper()
extract_order_id_node_NoUpper(st) ==
    LET m == re_search(st.ticket_text, 1) IN
    [order_id |->
        IF Truthy(st.order_id) THEN st.order_id
        ELSE IF m # 0 THEN SubSeq(st.ticket_text, m, m + 6)
        ELSE st.order_id]

\* mutant: the `if not order_id` guard is missing, the text is always searched
extract_order_id_node_AlwaysSearches(st) ==
    LET m == re_search(st.ticket_text, 1) IN
    [order_id |->
        IF m # 0 THEN Upper(SubSeq(st.ticket_text, m, m + 6))
        ELSE st.order_id]

extract_order_id_node(st) ==
    LET m == re_search(st.ticket_text, 1) IN
    [order_id |->
        IF Truthy(st.order_id) THEN st.order_id
        ELSE IF m # 0 THEN Upper(SubSeq(st.ticket_text, m, m + 6))
        ELSE st.order_id]

\* the tool call of fetch_order_node, past its order_id check
FetchOrderLookup(st) ==
    LET tool_calls == << [name |-> "fetch_order_tool",
                          args |-> [order_id |-> st.order_id],
                          id |-> "fetch_order_tool-1"] >>
        ai_msg == AIMessage(<< >>, tool_calls)
    IN  CHOOSE r \in
          { IF "raise" \in DOMAIN result_state THEN result_state
            ELSE LET messages == result_state.messages
                     last_msg == messages[Len(messages)]
                     parsed == JsonLoads(last_msg.content)
                     order == IF last_msg.type # "ToolMessage" THEN NoneDict
                              ELSE IF parsed = JsonError THEN [raw |-> last_msg.content]
                              ELSE parsed
                 IN  [messages |-> messages, order |-> order,
                      called |-> result_state.called] :
            result_state \in
                {tool_node_invoke([messages |-> Append(st.messages, ai_msg)])} } : TRUE

\* mutant: the order_id check is missing
fetch_order_node_NoGuard(st) == FetchOrderLookup(st)

fetch_order_node(st) ==
    IF ~Truthy(st.order_id)
    THEN [raise |-> <<"order_id missing and ", "not found", " in text">>]
    ELSE FetchOrderLookup(st)

\* mutant: rendering takes customer_name out of the order (pop instead of get)
draft_reply_node_ConsumesOrder(st) ==
    LET order == IF TruthyDict(st.order) THEN st.order ELSE EmptyDict
        issue_type == IF Truthy(st.issue_type) THEN st.issue_type ELSE <<"unknown">>
        reply_text == render_reply(issue_type, order)
    IN  [messages |-> <<AIMessage(reply_text, << >>)>>, recommendation |-> reply_text,
         order |-> [k \in (DOMAIN order) \ {"customer_name"} |-> order[k]]]

\* mutant: customer_name is read with order["customer_name"], a KeyError when absent
draft_reply_node_StrictLookup(st) ==
    LET order == IF TruthyDict(st.order) THEN st.order ELSE EmptyDict
        issue_type == IF Truthy(st.issue_type) THEN st.issue_type ELSE <<"unknown">>
        reply_text == render_reply(issue_type, order)
    IN  IF "customer_name" \notin DOMAIN order THEN [raise |-> <<"'customer_name'">>]
        ELSE [messages |-> <<AIMessage(reply_text, << >>)>>, recommendation |-> reply_text]

draft_reply_node(st) ==
    LET order == IF TruthyDict(st.order) THEN st.order ELSE EmptyDict
        issue_type == IF Truthy(st.issue_type) THEN st.issue_type ELSE <<"unknown">>
        reply_text == render_reply(issue_type, order)
    IN  [messages |-> <<AIMessage(reply_text, << >>)>>, recommendation |-> reply_text]

\* mutant: the conditional edge always takes the extraction branch
route_after_classify_AlwaysExtract(st) == "extract_order_id"

route_after_classify(st) ==
    IF Truthy(st.order_id) THEN "fetch_order" ELSE "extract_order_id"

(***************************************************************************)
(* The run: triage_invoke builds the initial state, graph.invoke runs the  *)
(* nodes along the edges, triage_invoke maps the outcome to a response.    *)
(***************************************************************************)
NoResponse == [status |-> 0, detail |-> None]

\* the state record triage_invoke builds for the request
initial_state(b) ==
    [messages |-> << >>, ticket_text |-> b.ticket_text,
     order_id |-> b.order_id, issue_type |-> None,
     evidence |-> None, recommendation |-> None, order |-> NoneDict]

Init ==
    /\ body \in [ticket_text : TicketTexts, order_id : OrderIdInputs]
    /\ state = initial_state(body)
    /\ pc = "ingest"
    /\ exc = None
    /\ response = NoResponse
    /\ ISSUES \in IssuesData
    /\ ORDERS = OrdersData
    /\ REPLIES = RepliesData
    /\ handle_tool_errors \in BOOLEAN
    /\ next_id = 1
    /\ trace = << >>
    /\ lookups = << >>
    /\ others = << >>
    /\ preempted = FALSE

\* one graph step: run the node on the state, then either propagate its
\* exception out of graph.invoke or commit its update and follow the edge
RunNode(name, u, next) ==
    /\ pc = name
    /\ trace' = Append(trace, name)
    /\ \E r \in {u} :
          IF "raise" \in DOMAIN r
          THEN /\ pc' = "RAISED"
               /\ exc' = r.raise
               /\ UNCHANGED <<state, next_id>>
          ELSE /\ state' = ApplyUpdate(state, r)
               /\ next_id' = next_id + (IF "messages" \in DOMAIN r THEN Len(r.messages) ELSE 0)
               /\ pc' = next
               /\ exc' = exc
    /\ UNCHANGED <<body, response, ISSUES, ORDERS, REPLIES, handle_tool_errors,
                   others, preempted>>

Ingest ==
    /\ RunNode("ingest", ingest_node(state), "classify_issue")
    /\ UNCHANGED lookups

Classify ==
    /\ pc = "classify_issue"
    /\ \E r \in {classify_issue_node(state)} :
          RunNode("classify_issue", r, route_after_classify(ApplyUpdate(state, r)))
    /\ UNCHANGED lookups

\* mutant: the edge out of extract_order_id bypasses fetch_order
ExtractOrderId_SkipsFetch ==
    /\ RunNode("extract_order_id", extract_order_id_node(state), "draft_reply")
    /\ UNCHANGED lookups

ExtractOrderId ==
    /\ RunNode("extract_order_id", extract_order_id_node(state), "fetch_order")
    /\ UNCHANGED lookups

FetchOrder ==
    /\ pc = "fetch_order"
    /\ \E r \in {fetch_order_node(state)} :
          /\ RunNode("fetch_order", r, "draft_reply")
          /\ lookups' = lookups \o Get(r, "called", << >>)

DraftReply ==
    /\ RunNode("draft_reply", draft_reply_node(state), "END")
    /\ UNCHANGED lookups

\* the messages of the result as the handler serializes them
SerializeMessages(msgs) ==
    [i \in 1..Len(msgs) |-> [type |-> msgs[i].type, content |-> msgs[i].content]]

\* the checks on the result of graph.invoke and the response body
ReturnResponse(result) ==
    IF ~Truthy(result.order_id)
    THEN [status |-> 400, detail |-> <<"order_id missing and not found in text">>]
    ELSE IF ~TruthyDict(result.order)
    THEN [status |-> 404, detail |-> <<"order not found">>]
    ELSE [status |-> 200, detail |-> None,
          order_id |-> result.order_id, issue_type |-> result.issue_type,
          evidence |-> result.evidence, order |-> result.order,
          reply_text |-> result.recommendation,
          messages |-> SerializeMessages(result.messages)]

\* the except clause: the HTTP error chosen from the text of the exception
ExceptResponse(msg) ==
    IF Contains(<<"not found", " in text">>, msg)
    THEN [status |-> 400, detail |-> <<"order_id missing and not found in text">>]
    ELSE IF Contains(<<"not found">>, msg)
    THEN [status |-> 404, detail |-> <<"order not found">>]
    ELSE [status |-> 500, detail |-> msg]

\* graph.invoke returned: the checks and the response body of triage_invoke
TriageReturn ==
    /\ pc = "END"
    /\ pc' = "DONE"
    /\ response' = ReturnResponse(state)
    /\ UNCHANGED <<body, state, exc, ISSUES, ORDERS, REPLIES, handle_tool_errors,
                   next_id, trace, lookups, others, preempted>>

\* graph.invoke raised ValueError: the except clause of triage_invoke
TriageExcept ==
    /\ pc = "RAISED"
    /\ pc' = "DONE"
    /\ response' = ExceptResponse(exc)
    /\ UNCHANGED <<body, state, exc, ISSUES, ORDERS, REPLIES, handle_tool_errors,
                   next_id, trace, lookups, others, preempted>>

Next ==
    \/ Ingest
    \/ Classify
    \/ ExtractOrderId
    \/ FetchOrder
    \/ DraftReply
    \/ TriageReturn
    \/ TriageExcept

Spec == Init /\ [][Next]_vars

\* graph.invoke and the handler run to completion: a step that can be taken is taken
FairSpec == Spec /\ WF_vars(Next)

(***************************************************************************)
(* Concurrent requests.  triage_invoke is a plain def, which FastAPI runs  *)
(* in a thread pool: several runs are in flight at once, each with its own *)
(* locals (body, initial_state, the state graph.invoke threads through the *)
(* nodes), all reading the module-level ORDERS, ISSUES, REPLIES, graph and *)
(* tool_node.  One run is the running one, whose locals are the variables  *)
(* above; the locals of the others are kept in `others`.                   *)
(***************************************************************************)
MaxRuns == 2

\* the requests of the concurrent runs: an id taken from the text, a known id
\* beside another in the text, no id at all, an id of no record
ConcBodies ==
    { [ticket_text |-> KwRefund \o <<" ">> \o <<"o", "r", "d", "1", "0", "0", "2">>,
       order_id |-> None],
      [ticket_text |-> <<"L", "a", "t", "e">> \o <<"o", "r", "d", "1", "0", "0", "2">>,
       order_id |-> ORD1001],
      [ticket_text |-> <<"L", "a", "t", "e">>, order_id |-> None],
      [ticket_text |-> << >>, order_id |-> ORD9999] }

\* the locals of a run that has not taken a step
FreshRun(b) ==
    [body |-> b, state |-> initial_state(b), pc |-> "ingest", exc |-> None,
     response |-> NoResponse, next_id |-> 1, trace |-> << >>, lookups |-> << >>,
     preempted |-> FALSE]

\* the locals of the running run
Current ==
    [body |-> body, state |-> state, pc |-> pc, exc |-> exc,
     response |-> response, next_id |-> next_id, trace |-> trace,
     lookups |-> lookups, preempted |-> preempted]

ConcInit ==
    /\ body \in ConcBodies
    /\ state = initial_state(body)
    /\ pc = "ingest"
    /\ exc = None
    /\ response = NoResponse
    /\ ISSUES \in IssuesData
    /\ ORDERS = OrdersData
    /\ REPLIES = RepliesData
    /\ handle_tool_errors \in BOOLEAN
    /\ next_id = 1
    /\ trace = << >>
    /\ lookups = << >>
    /\ others \in [1..(MaxRuns - 1) -> { FreshRun(b) : b \in ConcBodies }]
    /\ preempted = FALSE

\* mutant: the state record is one module-level object that every run works on
Switch_SharedState(i) ==
    /\ others' = [others EXCEPT ![i] =
                     [Current EXCEPT !.preempted =
                         preempted \/ (trace # << >> /\ pc # "DONE")]]
    /\ body' = others[i].body
    /\ pc' = others[i].pc
    /\ exc' = others[i].exc
    /\ response' = others[i].response
    /\ next_id' = others[i].next_id
    /\ trace' = others[i].trace
    /\ lookups' = others[i].lookups
    /\ preempted' = others[i].preempted
    /\ UNCHANGED <<state, ISSUES, ORDERS, REPLIES, handle_tool_errors>>

\* the scheduler suspends the running run and resumes run i where it stopped;
\* the module-level data is the same for every run
Switch(i) ==
    /\ others' = [others EXCEPT ![i] =
                     [Current EXCEPT !.preempted =
                         preempted \/ (trace # << >> /\ pc # "DONE")]]
    /\ body' = others[i].body
    /\ state' = others[i].state
    /\ pc' = others[i].pc
    /\ exc' = others[i].exc
    /\ response' = others[i].response
    /\ next_id' = others[i].next_id
    /\ trace' = others[i].trace
    /\ lookups' = others[i].lookups
    /\ preempted' = others[i].preempted
    /\ UNCHANGED <<ISSUES, ORDERS, REPLIES, handle_tool_errors>>

ConcNext ==
    \/ Next
    \/ \E i \in DOMAIN others : Switch(i)

ConcSpec == ConcInit /\ [][ConcNext]_vars

(***************************************************************************)
(* Vocabulary of the properties.                                           *)
(***************************************************************************)
Ran(name) == \E i \in 1..Len(trace) : trace[i] = name

\* the request names an order id (a non-empty string)
Supplied == Truthy(body.order_id)

InStore(order_id) == \E i \in 1..Len(ORDERS) : ORDERS[i].order_id = order_id

HasMatch(text) == \E i \in 1..Len(text) : MatchesAt(text, i)

IsLeftmostMatch(text, i) ==
    /\ MatchesAt(text, i)
    /\ \A j \in 1..(i - 1) : ~MatchesAt(text, j)

RuleMatches(i) == Contains(ISSUES[i].keyword, Lower(body.ticket_text))

MissingDetail == <<"order_id missing and not found in text">>

(***************************************************************************)
(* C1: a run whose request names an order id that is in no record of the   *)
(* store fails with OrderNotFound: draft_reply never runs, recommendation  *)
(* stays unset and the response is 404.                                    *)
(***************************************************************************)
C1_UnknownOrderIs404 ==
    (Supplied /\ ~InStore(body.order_id)) =>
        /\ ~Ran("draft_reply")
        /\ state.recommendation = None
        /\ pc = "DONE" => response.status = 404

(***************************************************************************)
(* C2: a run with no order id in the request and no ORD+4 digits match in  *)
(* the text fails with MissingOrderId: it never runs draft_reply, never    *)
(* returns from the graph, and the response is 400 with the "order_id      *)
(* missing" detail.                                                        *)
(***************************************************************************)
C2_MissingOrderIdIs400 ==
    (body.order_id = None /\ ~HasMatch(body.ticket_text)) =>
        /\ ~Ran("draft_reply")
        /\ pc # "END"
        /\ state.recommendation = None
        /\ pc = "RAISED" => exc = <<"order_id missing and ", "not found", " in text">>
        /\ pc = "DONE" => (response.status = 400 /\ response.detail = MissingDetail)

C2_Witness ==
    /\ pc = "DONE"
    /\ body.order_id = None
    /\ ~HasMatch(body.ticket_text)
    /\ Contains(<<"O", "R", "D", "1", "2">>, body.ticket_text)
    /\ response.status = 400

(***************************************************************************)
(* C3: with no order id in the request and a text that contains ORD (any   *)
(* case) followed by four digits, extraction sets order_id to the leftmost *)
(* such occurrence, letters upper-cased, digits as in the text.            *)
(***************************************************************************)
C3_ExtractsFirstMatch ==
    (~Supplied /\ Ran("extract_order_id")) =>
        \A i \in 1..Len(body.ticket_text) :
            IsLeftmostMatch(body.ticket_text, i) =>
                /\ Len(state.order_id) = 7
                /\ SubSeq(state.order_id, 1, 3) = <<"O", "R", "D">>
                /\ \A j \in 4..7 : state.order_id[j] = body.ticket_text[i + j - 1]

\* two matches, the first one in lower case, and extraction has run
C3_Witness ==
    /\ body.order_id = None
    /\ body.ticket_text = <<"o", "r", "d", "1", "0", "0", "2">> \o ORD1001
    /\ Ran("extract_order_id")
    /\ state.order_id = ORD1002

(***************************************************************************)
(* C4: when the request names an order id, extract_order_id never runs and *)
(* classify_issue is followed by fetch_order; extract_order_id runs only   *)
(* when order_id is absent after classify_issue.                           *)
(***************************************************************************)
C4_Routing ==
    /\ [](Supplied => ~Ran("extract_order_id"))
    /\ [][pc = "classify_issue" =>
            /\ Truthy(state'.order_id) => pc' = "fetch_order"
            /\ pc' = "extract_order_id" => ~Truthy(state'.order_id)]_vars
    /\ [][pc' = "extract_order_id" => pc = "classify_issue"]_vars

C4_Witness ==
    /\ Supplied
    /\ HasMatch(body.ticket_text)
    /\ trace = <<"ingest", "classify_issue", "fetch_order">>

(***************************************************************************)
(* C5: once a lookup has been made and its step committed, the transcript  *)
(* holds an assistant message with the tool call directly followed by the  *)
(* tool-result message with the same call id.                              *)
(***************************************************************************)
C5_ToolCallEnvelope ==
    (Ran("fetch_order") /\ pc \in {"draft_reply", "END", "DONE"}) =>
        \E i \in 1..(Len(state.messages) - 1) :
            /\ state.messages[i].type = "AIMessage"
            /\ state.messages[i].tool_calls # << >>
            /\ state.messages[i].tool_calls[1].name = "fetch_order_tool"
            /\ state.messages[i].tool_calls[1].args.order_id = state.order_id
            /\ state.messages[i + 1].type = "ToolMessage"
            /\ state.messages[i + 1].tool_call_id = state.messages[i].tool_calls[1].id

(***************************************************************************)
(* C6: after classify_issue, issue_type is that of the earliest rule in    *)
(* list order whose keyword occurs in the lower-cased text, and evidence   *)
(* names that rule's keyword.                                              *)
(***************************************************************************)
C6_FirstMatchWins ==
    Ran("classify_issue") =>
        \A i \in 1..Len(ISSUES) :
            (RuleMatches(i) /\ \A j \in 1..(i - 1) : ~RuleMatches(j)) =>
                /\ state.issue_type = ISSUES[i].issue_type
                /\ state.evidence = <<"matched keyword '">> \o ISSUES[i].keyword \o <<"'">>

\* two rules of different issue types match, one only after lower-casing
C6_Witness ==
    /\ Ran("classify_issue")
    /\ Contains(<<"L">>, body.ticket_text)
    /\ \E i, j \in 1..Len(ISSUES) :
          /\ i < j
          /\ RuleMatches(i)
          /\ RuleMatches(j)
          /\ ISSUES[i].issue_type # ISSUES[j].issue_type
          /\ state.issue_type = ISSUES[i].issue_type

(***************************************************************************)
(* C7: when no keyword occurs in the text, classify_issue sets             *)
(* issue_type "unknown" and evidence "no matching keyword found", no node  *)
(* before fetch_order raises, and a run whose order is in the store ends   *)
(* 200 with the reply rendered from the fallback template.                 *)
(***************************************************************************)
C7_UnknownStillReplies ==
    (\A r \in 1..Len(ISSUES) : ~RuleMatches(r)) =>
        /\ Ran("classify_issue") =>
              /\ state.issue_type = <<"unknown">>
              /\ state.evidence = <<"no matching keyword found">>
        /\ pc = "RAISED" => trace[Len(trace)] = "fetch_order"
        /\ (pc = "DONE" /\ InStore(state.order_id)) =>
              /\ response.status = 200
              /\ \E k \in 1..Len(ORDERS) :
                    /\ ORDERS[k].order_id = state.order_id
                    /\ response.reply_text =
                          <<"Hi ">> \o ORDERS[k].customer_name
                          \o <<", we are reviewing order ">> \o state.order_id \o <<".">>

C7_Witness ==
    /\ \A r \in 1..Len(ISSUES) : ~RuleMatches(r)
    /\ body.order_id = None
    /\ pc = "DONE"
    /\ response.status = 200
    /\ state.issue_type = <<"unknown">>

(***************************************************************************)
(* C8: every step keeps the transcript it found as a prefix of the         *)
(* transcript it leaves: no entry is dropped, moved or changed.            *)
(***************************************************************************)
C8_TranscriptAppendOnly ==
    [][/\ Len(state'.messages) >= Len(state.messages)
       /\ \A i \in 1..Len(state.messages) : state'.messages[i] = state.messages[i]]_vars

\* the fetch step has appended to a transcript of two messages
C8_Witness ==
    /\ pc = "draft_reply"
    /\ Len(state.messages) = 3
    /\ state.messages[3].type = "ToolMessage"
    /\ state.messages[3].status = "success"
    /\ state.messages[1].type = "HumanMessage"

(***************************************************************************)
(* C9: once order_id, issue_type, evidence, order or recommendation holds  *)
(* a value, no step changes or clears it.                                  *)
(***************************************************************************)
C9_FieldsSetOnce ==
    [][/\ Truthy(state.order_id) => state'.order_id = state.order_id
       /\ state.issue_type # None => state'.issue_type = state.issue_type
       /\ state.evidence # None => state'.evidence = state.evidence
       /\ state.order # NoneDict => state'.order = state.order
       /\ state.recommendation # None =>
             state'.recommendation = state.recommendation]_vars

\* every field has been set, order_id by extraction
C9_Witness ==
    /\ pc = "END"
    /\ body.order_id = None
    /\ Truthy(state.order_id)
    /\ state.issue_type # None
    /\ state.evidence # None
    /\ state.order # NoneDict
    /\ state.recommendation # None

(***************************************************************************)
(* C10: a 200 response carries order_id, issue_type, evidence, order and   *)
(* reply_text; order is the store record with the result's order_id;       *)
(* reply_text is the recommendation; the transcript is not empty and ends  *)
(* with the reply text.                                                    *)
(***************************************************************************)
C10_ResultComplete ==
    response.status = 200 =>
        /\ Truthy(response.order_id)
        /\ Truthy(response.issue_type)
        /\ Truthy(response.evidence)
        /\ Truthy(response.reply_text)
        /\ \E k \in 1..Len(ORDERS) :
              /\ ORDERS[k] = response.order
              /\ ORDERS[k].order_id = response.order_id
        /\ response.reply_text = state.recommendation
        /\ Len(response.messages) > 0
        /\ response.messages[Len(response.messages)].content = response.reply_text

(***************************************************************************)
(* C11: the renderer is pure: rendering the (issue_type, order) pair of    *)
(* the run again, in any state after draft_reply, gives the text rendered  *)
(* at draft_reply, and the draft step changes neither the order, the       *)
(* issue type nor the template configuration.                              *)
(***************************************************************************)
C11_RenderPure ==
    /\ [](Ran("draft_reply") =>
            render_reply(IF Truthy(state.issue_type) THEN state.issue_type
                         ELSE <<"unknown">>,
                         IF TruthyDict(state.order) THEN state.order ELSE EmptyDict)
              = state.recommendation)
    /\ [][pc = "draft_reply" =>
            /\ state'.order = state.order
            /\ state'.issue_type = state.issue_type
            /\ REPLIES' = REPLIES]_vars

C11_Witness ==
    /\ pc = "END"
    /\ Get(state.order, "customer_name", << >>) = <<"Alice">>
    /\ Contains(<<"Alice">>, state.recommendation)
    /\ Contains(ORD1001, state.recommendation)

(***************************************************************************)
(* C12: every run terminates.  The nodes run in the order ingest,          *)
(* classify_issue, optionally extract_order_id, fetch_order, draft_reply,  *)
(* each at most once; a failure is raised only by fetch_order; the run     *)
(* eventually returns from the graph or raises.                            *)
(***************************************************************************)
IsPrefix(a, b) == Len(a) <= Len(b) /\ \A i \in 1..Len(a) : a[i] = b[i]

GraphPaths ==
    { <<"ingest", "classify_issue", "fetch_order", "draft_reply">>,
      <<"ingest", "classify_issue", "extract_order_id", "fetch_order", "draft_reply">> }

C12_Terminates ==
    /\ [](\E p \in GraphPaths : IsPrefix(trace, p))
    /\ [](pc = "END" => trace \in GraphPaths)
    /\ [](pc = "RAISED" => trace[Len(trace)] = "fetch_order")
    /\ <>(pc = "END" \/ pc = "RAISED")

C12_Witness ==
    /\ pc = "END"
    /\ trace = <<"ingest", "classify_issue", "extract_order_id", "fetch_order", "draft_reply">>

(***************************************************************************)
(* C13: fetch_order_tool is invoked at most once per run and never with an *)
(* absent order_id: fetch_order with order_id absent raises MissingOrderId *)
(* with no lookup made and no message added to the transcript.             *)
(***************************************************************************)
C13_SingleLookup ==
    /\ [](Len(lookups) <= 1)
    /\ [](\A i \in 1..Len(lookups) : Truthy(lookups[i]))
    /\ [][(pc = "fetch_order" /\ ~Truthy(state.order_id)) =>
            /\ pc' = "RAISED"
            /\ exc' = <<"order_id missing and ", "not found", " in text">>
            /\ lookups' = lookups
            /\ state'.messages = state.messages]_vars

C13_Witness ==
    /\ pc = "RAISED"
    /\ ~Truthy(state.order_id)
    /\ lookups = << >>
    /\ Len(state.messages) = 2
    /\ trace[Len(trace)] = "fetch_order"

(***************************************************************************)
(* C14: a non-empty order_id of the request is never overwritten: it is    *)
(* the order_id of the state throughout, the id every lookup is made with  *)
(* and the order_id of a 200 result, whatever the text contains; and the   *)
(* extractor returns a present order_id unchanged for every text.          *)
(***************************************************************************)
C14_SuppliedIdKept ==
    /\ Supplied =>
          /\ state.order_id = body.order_id
          /\ \A i \in 1..Len(lookups) : lookups[i] = body.order_id
          /\ response.status = 200 => response.order_id = body.order_id
    /\ \A id \in OrderIdInputs :
          Truthy(id) =>
              extract_order_id_node([state EXCEPT !.order_id = id]).order_id = id

\* the text names another order than the request does
C14_Witness ==
    /\ body.order_id = ORD1001
    /\ Contains(<<"o", "r", "d", "1", "0", "0", "2">>, body.ticket_text)
    /\ pc = "DONE"
    /\ lookups = <<ORD1001>>
    /\ response.status = 200
    /\ response.order_id = ORD1001

(***************************************************************************)
(* C15: the failure reported to the caller is decided by the state at      *)
(* fetch_order alone: the response is 400 exactly when order_id was absent *)
(* when fetch_order ran, and 404 exactly when it was present and the store *)
(* holds no record for it.  (No step after fetch_order changes order_id,   *)
(* so the order_id of the final state is the one fetch_order saw.)         *)
(***************************************************************************)
C15_FailureKind ==
    (pc = "DONE" /\ Ran("fetch_order")) =>
        /\ response.status = 400 <=> ~Truthy(state.order_id)
        /\ response.status = 404 <=> (Truthy(state.order_id) /\ ~InStore(state.order_id))

(***************************************************************************)
(* C16: the ingest step appends exactly one message to the transcript, a   *)
(* human message whose content is ticket_text, and leaves ticket_text,     *)
(* order_id, issue_type, evidence, order and recommendation as they were.  *)
(***************************************************************************)
C16_IngestAppendsOne ==
    [][pc = "ingest" =>
         /\ Len(state'.messages) = Len(state.messages) + 1
         /\ SubSeq(state'.messages, 1, Len(state.messages)) = state.messages
         /\ state'.messages[Len(state'.messages)].type = "HumanMessage"
         /\ state'.messages[Len(state'.messages)].content = state.ticket_text
         /\ state'.ticket_text = state.ticket_text
         /\ state'.order_id = state.order_id
         /\ state'.issue_type = state.issue_type
         /\ state'.evidence = state.evidence
         /\ state'.order = state.order
         /\ state'.recommendation = state.recommendation]_vars

\* ingest has run on a request with a text and an order id
C16_Witness ==
    /\ pc = "classify_issue"
    /\ trace = <<"ingest">>
    /\ Supplied
    /\ body.ticket_text # << >>
    /\ Len(state.messages) = 1
    /\ state.messages[1].content = body.ticket_text

(***************************************************************************)
(* C17: runs are isolated.  With the steps of several runs interleaved in  *)
(* any way, every finished run has the state, the transcript and the       *)
(* response (result fields or failure status) that its request gives when  *)
(* the nodes run on it alone, one after the other; and no step changes     *)
(* ORDERS, ISSUES or REPLIES.                                              *)
(***************************************************************************)
\* a node's update applied to the state of a run that is alone: the ids of
\* its messages are the positions in its transcript
ApplyAlone(st, u) ==
    [k \in DOMAIN st |->
        IF k \notin DOMAIN u THEN st[k]
        ELSE IF k = "messages"
        THEN MergeById(st.messages, AssignIds(u.messages, Len(st.messages) + 1))
        ELSE u[k]]

\* the nodes applied in the order of the graph's edges to the request b alone
Alone(b) ==
    LET s0 == initial_state(b)
        s1 == ApplyAlone(s0, ingest_node(s0))
        s2 == ApplyAlone(s1, classify_issue_node(s1))
        s3 == IF route_after_classify(s2) = "extract_order_id"
              THEN ApplyAlone(s2, extract_order_id_node(s2))
              ELSE s2
        f  == fetch_order_node(s3)
    IN  IF "raise" \in DOMAIN f
        THEN [state |-> s3, response |-> ExceptResponse(f.raise)]
        ELSE LET s4 == ApplyAlone(s3, f)
                 s5 == ApplyAlone(s4, draft_reply_node(s4))
             IN  [state |-> s5, response |-> ReturnResponse(s5)]

Runs == {Current} \cup { others[i] : i \in DOMAIN others }

C17_RunsIsolated ==
    /\ [](\A run \in Runs :
            run.pc = "DONE" =>
                \E alone \in {Alone(run.body)} :
                    /\ run.state = alone.state
                    /\ run.response = alone.response)
    /\ [][ORDERS' = ORDERS /\ ISSUES' = ISSUES /\ REPLIES' = REPLIES]_vars

\* two runs of different requests, each suspended between two of its steps,
\* have finished, one with a result and one with a failure
C17_Witness ==
    /\ pc = "DONE"
    /\ preempted
    /\ response.status = 200
    /\ \E i \in DOMAIN others :
          /\ others[i].pc = "DONE"
          /\ others[i].preempted
          /\ others[i].body # body
          /\ others[i].response.status = 400

(***************************************************************************)
(* C18: when the content of the tool message is no JSON document, so that  *)
(* fetch_order keeps it as the record {"raw": content}, the run does not   *)
(* raise: draft_reply renders the reply as it would for the empty record,  *)
(* the template of the issue type with "Customer" for the customer name    *)
(* and the empty string for the order id, and the run returns the reply.   *)
(***************************************************************************)
TemplateOf(issue_type) ==
    IF \E k \in 1..Len(REPLIES) : REPLIES[k].issue_type = issue_type
    THEN REPLIES[CHOOSE k \in 1..Len(REPLIES) : REPLIES[k].issue_type = issue_type].template
    ELSE <<"Hi ", "{{customer_name}}", ", we are reviewing order ", "{{order_id}}", ".">>

WithDefaults(template) ==
    [i \in 1..Len(template) |->
        IF template[i] = "{{customer_name}}" THEN "Customer"
        ELSE IF template[i] = "{{order_id}}" THEN ""
        ELSE template[i]]

Flat(s) == SelectSeq(s, LAMBDA a : a # "")

====
